---- MODULE Spec2Model ----
(***************************************************************************)
(* Real-time transcription session orchestrator of transcribeRx: the App   *)
(* component (session creation, startRecording / stopRecording, the        *)
(* WebSocket handlers, the debounced disease analysis and the terminal     *)
(* SOAP / recommendation pipeline) as driven by the buttons of the         *)
(* TranscribeLegacy page.                                                  *)
(*                                                                         *)
(* Strings are sequences of one-character strings, so that split, join,    *)
(* length, trim and lower-casing are computed as the code computes them.   *)
(* Every event handler runs to its next await as one atomic action (the    *)
(* JavaScript event loop); an await ends the action and its continuation   *)
(* is another action.                                                      *)
(***************************************************************************)
EXTENDS Integers, Sequences, FiniteSets, TLC

\* ------------------------------------------------------------------ bounds
\* inputs of one behaviour: startRecording and stopRecording invocations,
\* inbound socket messages and audio frames, taken together
MaxInputs == 4

\* ----------------------------------------------------------------- strings
SP == " "
NL == "\n"
TAB == "\t"

IsWhitespace(c) == c \in {SP, NL, TAB}

\* String.prototype.toLowerCase, character by character
LowerChar(c) ==
  CASE c = "A" -> "a"
    [] c = "B" -> "b"
    [] c = "C" -> "c"
    [] OTHER -> c

ToLowerCase(s) == [i \in 1..Len(s) |-> LowerChar(s[i])]

RECURSIVE Join(_, _)
\* Array.prototype.join: the elements of parts with sep between them
Join(parts, sep) ==
  IF Len(parts) = 0 THEN <<>>
  ELSE IF Len(parts) = 1 THEN parts[1]
  ELSE parts[1] \o sep \o Join(Tail(parts), sep)

RECURSIVE SplitSpace(_)
\* String.prototype.split(' '): one token per single space, empty tokens kept
SplitSpace(s) ==
  IF \A i \in 1..Len(s) : s[i] # SP THEN <<s>>
  ELSE LET k == CHOOSE i \in 1..Len(s) :
                  s[i] = SP /\ \A j \in 1..(i - 1) : s[j] # SP
       IN  <<SubSeq(s, 1, k - 1)>> \o SplitSpace(SubSeq(s, k + 1, Len(s)))

RECURSIVE SkipWhitespace(_)
SkipWhitespace(s) ==
  IF Len(s) > 0 /\ IsWhitespace(s[1]) THEN SkipWhitespace(Tail(s)) ELSE s

RECURSIVE SplitWhitespace(_)
\* String.prototype.split(/\s+/): a run of whitespace is one separator; a
\* leading or trailing run leaves an empty token at that end
SplitWhitespace(s) ==
  IF \A i \in 1..Len(s) : ~IsWhitespace(s[i]) THEN <<s>>
  ELSE LET k == CHOOSE i \in 1..Len(s) :
                  IsWhitespace(s[i]) /\ \A j \in 1..(i - 1) : ~IsWhitespace(s[j])
       IN  <<SubSeq(s, 1, k - 1)>>
             \o SplitWhitespace(SkipWhitespace(SubSeq(s, k, Len(s))))

\* String.prototype.trim().length === 0
IsBlank(s) == \A i \in 1..Len(s) : IsWhitespace(s[i])

Range(f) == {f[i] : i \in DOMAIN f}

\* ------------------------------------------------------------------- texts
Sentence(words) == Join(words, <<SP>>)

\* 4 words: below the 5-token threshold of the interim branch
T4 == Sentence(<<<<"a">>, <<"b">>, <<"c">>, <<"d">>>>)
\* 9 words
T9 == Sentence(<<<<"a">>, <<"b">>, <<"c">>, <<"d">>, <<"e">>, <<"f">>, <<"g">>, <<"h">>,
                 <<"i">>>>)
\* 10 words, the 9 words of T9 among them
T10 == Sentence(<<<<"a">>, <<"b">>, <<"c">>, <<"d">>, <<"e">>, <<"f">>, <<"g">>, <<"h">>,
                  <<"i">>, <<"j">>>>)
\* 5 words of other content, 10 characters
T5 == Sentence(<<<<"v", "v">>, <<"w">>, <<"x">>, <<"y">>, <<"z">>>>)
\* 5 words in 9 characters: enough tokens for a debounced request, too short
\* for detectDiseasesDebounced
TBrief == Sentence(<<<<"a">>, <<"b">>, <<"c">>, <<"d">>, <<"e">>>>)
\* 17 words, and 20 words with those 17 among them: similarity 17/20 = 0.85
T17 == Sentence(<<<<"a">>, <<"b">>, <<"c">>, <<"d">>, <<"e">>, <<"f">>, <<"g">>, <<"h">>,
                  <<"i">>, <<"j">>, <<"k">>, <<"l">>, <<"m">>, <<"n">>, <<"o">>, <<"p">>,
                  <<"q">>>>)
T20 == T17 \o <<SP, "r", SP, "s", SP, "t">>
\* 4 words after a leading space, 12 characters: split(' ') yields 5 tokens
TLead4 == <<SP, "a", "a", "a", SP, "b", "b", SP, "c", "c", SP, "d">>
\* 5 words separated by tabs, 14 characters: split(' ') yields 1 token
TTabs == <<"a", "a", TAB, "b", "b", TAB, "c", "c", TAB, "d", "d", TAB, "e", "e">>
\* T10 with three of its words in upper case
TUpper == Sentence(<<<<"A">>, <<"B">>, <<"C">>, <<"d">>, <<"e">>, <<"f">>, <<"g">>, <<"h">>,
                     <<"i">>, <<"j">>>>)
\* T10 after a leading space
TLead == <<SP>> \o T10
\* words separated by a tab, by a line break and by two spaces
TMixed == <<"a", TAB, "b", NL, "c", SP, SP, "d">>
EmptyText == <<>>

Doctor == <<"D", "o", "c", "t", "o", "r">>
Patient == <<"P", "a", "t", "i", "e", "n", "t">>
ParagraphBreak == <<NL, NL>>

NoTag == "none"
Word(w, tag) == [word |-> w, speaker_tag |-> tag]

\* an inbound WebSocket message: kind "json" is a string that parses to an
\* object with these fields, "malformed" a string JSON.parse rejects,
\* "binary" an ArrayBuffer
JsonMsg(text, words, final, err) ==
  [kind |-> "json", text |-> text, words |-> words, is_final |-> final, error |-> err]
\* no message event yet
NoMessage == [kind |-> "none", text |-> <<>>, words |-> <<>>, is_final |-> FALSE,
              error |-> FALSE]
Malformed == [kind |-> "malformed", text |-> <<>>, words |-> <<>>, is_final |-> FALSE,
              error |-> FALSE]
Binary == [kind |-> "binary", text |-> <<>>, words |-> <<>>, is_final |-> FALSE,
           error |-> FALSE]

TwoSpeakers == <<Word(<<"a">>, NoTag), Word(<<"b">>, "SPEAKER_2"),
                 Word(<<"c">>, "SPEAKER_1"), Word(<<"d">>, "SPEAKER_2")>>

\* the speaker tags of words in order of first occurrence (the insertion
\* order of the keys of speakerGroups)
RECURSIVE SpeakerOrder(_, _)
SpeakerOrder(words, seen) ==
  IF words = <<>> THEN seen
  ELSE LET speaker == IF words[1].speaker_tag = NoTag THEN "SPEAKER_1"
                      ELSE words[1].speaker_tag
       IN  SpeakerOrder(Tail(words),
                        IF speaker \in Range(seen) THEN seen ELSE Append(seen, speaker))

RECURSIVE WordsOf(_, _)
WordsOf(words, speaker) ==
  IF words = <<>> THEN <<>>
  ELSE LET s == IF words[1].speaker_tag = NoTag THEN "SPEAKER_1"
                ELSE words[1].speaker_tag
       IN  (IF s = speaker THEN <<words[1].word>> ELSE <<>>)
             \o WordsOf(Tail(words), speaker)

SpeakerLine(words, speaker) ==
  (IF speaker = "SPEAKER_2" THEN Patient ELSE Doctor) \o <<":", SP>>
    \o Join(WordsOf(words, speaker), <<SP>>)

\* formattedText of onmessage
FormatText(m) ==
  IF Len(m.words) > 0
  THEN LET order == SpeakerOrder(m.words, <<>>)
       IN  Join([i \in 1..Len(order) |-> SpeakerLine(m.words, order[i])], <<NL>>)
  ELSE m.text

\* ---------------------------------------------------------- similarity gate
SimilarityNum(text1, text2) ==
  Cardinality(Range(SplitWhitespace(ToLowerCase(text1)))
                \cap Range(SplitWhitespace(ToLowerCase(text2))))
SimilarityDen(text1, text2) ==
  Cardinality(Range(SplitWhitespace(ToLowerCase(text1)))
                \cup Range(SplitWhitespace(ToLowerCase(text2))))

\* the similarity computed on the texts as they are, without toLowerCase
CalculateSimilarityCaseSensitive(text1, text2) ==
  IF Len(text1) = 0 \/ Len(text2) = 0 THEN [num |-> 0, den |-> 1]
  ELSE [num |-> Cardinality(Range(SplitWhitespace(text1))
                              \cap Range(SplitWhitespace(text2))),
        den |-> Cardinality(Range(SplitWhitespace(text1))
                              \cup Range(SplitWhitespace(text2)))]

\* calculateSimilarity(text1, text2), as the fraction num / den
CalculateSimilarity(text1, text2) ==
  IF Len(text1) = 0 \/ Len(text2) = 0 THEN [num |-> 0, den |-> 1]
  ELSE IF SimilarityDen(text1, text2) > 0
       THEN [num |-> SimilarityNum(text1, text2), den |-> SimilarityDen(text1, text2)]
       ELSE [num |-> 0, den |-> 1]

\* the comparison with the threshold made inclusive
TooSimilarInclusive(text1, text2) ==
  LET similarity == CalculateSimilarity(text1, text2)
  IN  100 * similarity.num >= 85 * similarity.den

\* calculateSimilarity(text1, text2) > 0.85, the ratio compared exactly
TooSimilar(text1, text2) ==
  LET similarity == CalculateSimilarity(text1, text2)
  IN  100 * similarity.num > 85 * similarity.den

\* -------------------------------------------------------- disease aggregator
NoName == "undefined"
Detection(disease, name, conf) ==
  [disease |-> disease, disease_name |-> name, confidence |-> conf]

\* the updater without the filter: every detection of the response appended
MergeDetectionsUnfiltered(prev, detections) == prev \o detections

\* the updater passed to setDiseases in detectDiseases
MergeDetections(prev, detections) ==
  LET existing == {prev[i].disease_name : i \in DOMAIN prev}
  IN  prev \o SelectSeq(detections, LAMBDA d : d.disease_name \notin existing)

\* detected_diseases of the SOAP and recommendation request bodies
DetectedDiseases(ds) ==
  [i \in 1..Len(ds) |->
     [disease_name |-> IF ds[i].disease_name # NoName THEN ds[i].disease_name
                       ELSE ds[i].disease,
      confidence |-> ds[i].confidence]]

\* ------------------------------------------------------------------ inputs
FinalPlain == JsonMsg(T10, <<>>, TRUE, FALSE)
FinalWords == JsonMsg(T4, TwoSpeakers, TRUE, FALSE)
InterimLong == JsonMsg(T10, <<>>, FALSE, FALSE)
InterimWords == JsonMsg(T10, TwoSpeakers, FALSE, FALSE)
InterimShort == JsonMsg(T4, <<>>, FALSE, FALSE)
InterimNine == JsonMsg(T9, <<>>, FALSE, FALSE)
InterimFive == JsonMsg(T5, <<>>, FALSE, FALSE)
InterimLead4 == JsonMsg(TLead4, <<>>, FALSE, FALSE)
InterimTabs == JsonMsg(TTabs, <<>>, FALSE, FALSE)
InterimBrief == JsonMsg(TBrief, <<>>, FALSE, FALSE)
Interim17 == JsonMsg(T17, <<>>, FALSE, FALSE)
Interim20 == JsonMsg(T20, <<>>, FALSE, FALSE)
ErrorWithText == JsonMsg(T4, <<>>, TRUE, TRUE)
NoText == JsonMsg(EmptyText, <<>>, TRUE, FALSE)

\* the messages the transcription service delivers
InboundMsgs == {FinalPlain, FinalWords, InterimLong, ErrorWithText, Malformed, Binary}

\* the messages it delivers in the specification of the analysis scheduler
SchedulerMsgs ==
  {InterimLong, InterimWords, InterimNine, InterimShort, InterimFive, FinalPlain, NoText}

Pneumonia9 == Detection("pneumonia", "Pneumonia", 9)
Pneumonia6 == Detection("pneumonia", "Pneumonia", 6)
Flu == Detection("flu", "Flu", 7)
Unnamed == Detection("cough", NoName, 5)

\* the detections arrays of the analysis responses
AnalysisResponses == {<<Pneumonia9, Pneumonia6>>, <<Pneumonia6, Flu>>}

\* every detections array of at most two entries, a repeated and a missing
\* disease_name among them
Detections == {Pneumonia9, Pneumonia6, Unnamed}
DetectionLists ==
  {<<>>} \cup {<<d>> : d \in Detections} \cup {<<d, e>> : d \in Detections, e \in Detections}

\* the notes the SOAP generator returns, and the recommendation lists
SoapNotes == {"note1"}
RecommendationLists == {<<"rec1">>}
NoNote == "null"

\* ------------------------------------------------------------------- state
VARIABLES
  session,                \* useState session: 0 is null, else the session_id
  loading,                \* useState loading
  isRecording,            \* useState isRecording
  isConnected,            \* useState isConnected
  isLiveTranscribing,     \* useState isLiveTranscribing
  liveTranscript,         \* useState liveTranscript (the interim slot)
  liveTranscriptHistory,  \* useState liveTranscriptHistory
  diseases,               \* useState diseases (the DetectionSet)
  soapNote,               \* useState soapNote
  recommendations,        \* useState recommendations
  sockets,                \* every WebSocket created so far, by creation order
  wsRef,                  \* wsRef.current: 0 is null, else an index of sockets
  audioNodesRef,          \* audioNodesRef.current is non-null
  processors,             \* script processors still connected to the graph
  audioFrames,            \* onaudioprocess callbacks run so far
  debounceTimer,          \* the pending timeout of diseaseDetectionTimerRef
  timeouts,               \* texts of the setTimeout callbacks not yet run or cleared
  lastDetectedText,       \* lastDetectedTextRef.current
  analysisCalls,          \* transcripts POSTed to /v1/analyze, in order
  analysisPending,        \* analysis calls whose response has not arrived
  lastResponse,           \* data.detections of the latest 2xx analysis response
  sessionPending,         \* startSession awaits its fetch
  micPending,             \* startRecording invocations awaiting getUserMedia
  stops,                  \* one record per stopRecording invocation
  lastError,              \* what the last step surfaced by alert or console.error
  inputs,                 \* startRecording, stopRecording, messages, frames so far
  inputLimit,             \* how many of those one behaviour may hold
  finals,                 \* the final text messages delivered, in order
  lastMessage,            \* event.data of the latest message event
  transcription,          \* DataProvider: useState transcription
  selectedPatient,        \* Dashboard: useState selectedPatient is non-null
  reviewSubmitted,        \* DataProvider: review.submitted
  contextValue,           \* DataProvider: which object `value` is, by the parity of
                          \* the renders of the DataProvider
  gateLeft,               \* calculateSimilarity: its argument text1
  gateRight,              \* calculateSimilarity: its argument text2
  gateValue               \* calculateSimilarity: the value it returned

vars == <<session, loading, isRecording, isConnected, isLiveTranscribing,
          liveTranscript, liveTranscriptHistory, lastMessage, diseases, soapNote,
          recommendations, sockets, wsRef, audioNodesRef, processors, audioFrames,
          debounceTimer, timeouts, lastDetectedText, analysisCalls, analysisPending, lastResponse,
          sessionPending, micPending, stops, lastError,
          inputs, inputLimit, finals, transcription, selectedPatient, reviewSubmitted,
          contextValue,
          gateLeft, gateRight, gateValue>>

NoTimer == [armed |-> FALSE, text |-> <<>>]
Timer(text) == [armed |-> TRUE, text |-> text]

uiFlags == <<isRecording, isConnected, isLiveTranscribing>>
transcriptVars == <<liveTranscript, liveTranscriptHistory, finals, lastMessage>>
artifactVars == <<soapNote, recommendations>>
socketVars == <<sockets, wsRef>>
audioVars == <<audioNodesRef, processors, audioFrames>>
schedulerVars == <<debounceTimer, timeouts, lastDetectedText>>
analysisVars == <<analysisCalls, analysisPending, lastResponse>>
sessionVars == <<session, sessionPending>>
dashboardVars == <<transcription, selectedPatient, reviewSubmitted, contextValue>>
gateVars == <<gateLeft, gateRight, gateValue>>

\* calculateSimilarity has not been called
NotComputed == [num |-> 0, den |-> 0]

\* initialTranscription of the DataProvider (sessionId 0 is null)
initialTranscription ==
  [sessionId |-> 0, transcript |-> <<>>, transcriptHistory |-> <<>>, diseases |-> <<>>,
   soapNote |-> NoNote, recommendations |-> <<>>]

InitApp ==
  /\ session = 0
  /\ loading = FALSE
  /\ isRecording = FALSE
  /\ isConnected = FALSE
  /\ isLiveTranscribing = FALSE
  /\ liveTranscript = <<>>
  /\ liveTranscriptHistory = <<>>
  /\ lastMessage = NoMessage
  /\ diseases = <<>>
  /\ soapNote = NoNote
  /\ recommendations = <<>>
  /\ sockets = <<>>
  /\ wsRef = 0
  /\ audioNodesRef = FALSE
  /\ processors = 0
  /\ audioFrames = 0
  /\ debounceTimer = NoTimer
  /\ timeouts = <<>>
  /\ lastDetectedText = <<>>
  /\ analysisCalls = <<>>
  /\ analysisPending = 0
  /\ lastResponse = <<>>
  /\ sessionPending = FALSE
  /\ micPending = 0
  /\ stops = <<>>
  /\ lastError = "none"
  /\ inputs = 0
  /\ finals = <<>>
  /\ transcription = initialTranscription
  /\ selectedPatient = FALSE
  /\ reviewSubmitted = FALSE
  /\ contextValue = 0

Init ==
  /\ InitApp
  /\ inputLimit = MaxInputs
  /\ gateLeft = EmptyText
  /\ gateRight = EmptyText
  /\ gateValue = NotComputed

\* ------------------------------------------------------- session creation
\* "Start New Session" (shown while there is no session, disabled while
\* loading): startSession up to its fetch
StartSession ==
  /\ session = 0
  /\ ~loading
  /\ ~sessionPending
  /\ loading' = TRUE
  /\ sessionPending' = TRUE
  /\ UNCHANGED <<session, uiFlags, transcriptVars, diseases, artifactVars, socketVars,
                 audioVars, schedulerVars, analysisVars, micPending, stops,
                 inputs, inputLimit>>
  /\ lastError' = "none"
  /\ UNCHANGED <<dashboardVars, gateVars>>

\* the fetch answers 2xx: setSession(data), setLoading(false)
SessionCreated ==
  /\ sessionPending
  /\ session' = 1
  /\ loading' = FALSE
  /\ sessionPending' = FALSE
  /\ UNCHANGED <<uiFlags, transcriptVars, diseases, artifactVars,
                 socketVars, audioVars, schedulerVars, analysisVars, micPending, stops, inputs, inputLimit>>
  /\ lastError' = "none"
  /\ UNCHANGED <<dashboardVars, gateVars>>

\* the failure path without the setLoading(false) of the catch
SessionFailedKeepsLoading ==
  /\ sessionPending
  /\ sessionPending' = FALSE
  /\ lastError' = "session"
  /\ UNCHANGED <<session, loading, uiFlags, transcriptVars, diseases, artifactVars,
                 socketVars, audioVars, schedulerVars, analysisVars, micPending, stops,
                 inputs, inputLimit>>
  /\ UNCHANGED <<dashboardVars, gateVars>>

\* the fetch answers non-2xx or rejects: alert, setLoading(false)
SessionFailed ==
  /\ sessionPending
  /\ loading' = FALSE
  /\ sessionPending' = FALSE
  /\ lastError' = "session"
  /\ UNCHANGED <<session, uiFlags, transcriptVars, diseases, artifactVars,
                 socketVars, audioVars, schedulerVars, analysisVars, micPending, stops,
                 inputs, inputLimit>>
  /\ UNCHANGED <<dashboardVars, gateVars>>

\* --------------------------------------------------------- startRecording
\* "Start Recording" is shown while a session exists and isRecording is
\* false; "Start Live" is enabled while a session exists and
\* isLiveTranscribing is false (busy and isAnalyzing are never set)
StartRecordingEnabled ==
  /\ session # 0
  /\ (~isRecording \/ ~isLiveTranscribing)

\* startRecording up to `await getUserMedia`
StartRecording ==
  /\ StartRecordingEnabled
  /\ inputs < inputLimit
  /\ inputs' = inputs + 1
  /\ UNCHANGED inputLimit
  /\ micPending' = micPending + 1
  /\ UNCHANGED <<sessionVars, loading, uiFlags, transcriptVars, diseases, artifactVars,
                 socketVars, audioVars, schedulerVars, analysisVars, stops>>
  /\ lastError' = "none"
  /\ UNCHANGED <<dashboardVars, gateVars>>

\* getUserMedia rejects (permission denied, no device): the catch alerts
MicrophoneDenied ==
  /\ micPending > 0
  /\ micPending' = micPending - 1
  /\ lastError' = "capture"
  /\ UNCHANGED <<sessionVars, loading, uiFlags, transcriptVars, diseases, artifactVars,
                 socketVars, audioVars, schedulerVars, analysisVars, stops, inputs, inputLimit>>
  /\ UNCHANGED <<dashboardVars, gateVars>>

\* new WebSocket(wsUrl) assigned to wsRef.current, setIsLiveTranscribing(true)
CreateSocket ==
  /\ sockets' = Append(sockets,
                      [readyState |-> "CONNECTING", sent |-> <<>>, closes |-> <<>>])
  /\ wsRef' = Len(sockets) + 1
  /\ isLiveTranscribing' = TRUE

\* getUserMedia resolves and the rest of startRecording runs to its end
StartCapture ==
  /\ micPending > 0
  /\ micPending' = micPending - 1
  /\ CreateSocket
  /\ audioNodesRef' = TRUE
  /\ processors' = processors + 1
  /\ UNCHANGED audioFrames
  /\ UNCHANGED <<sessionVars, loading, isRecording, isConnected, transcriptVars, diseases,
                 artifactVars, schedulerVars, analysisVars, stops, inputs, inputLimit>>
  /\ lastError' = "none"
  /\ UNCHANGED <<dashboardVars, gateVars>>

\* getUserMedia resolves, the socket is created, then new AudioContext or
\* createMediaStreamSource throws: the catch alerts
AudioSetupFails ==
  /\ micPending > 0
  /\ micPending' = micPending - 1
  /\ CreateSocket
  /\ lastError' = "capture"
  /\ UNCHANGED <<sessionVars, loading, isRecording, isConnected, transcriptVars, diseases,
                 artifactVars, audioVars, schedulerVars, analysisVars, stops, inputs, inputLimit>>
  /\ UNCHANGED <<dashboardVars, gateVars>>

\* onaudioprocess sending the frame whatever the state of the socket
OnAudioProcessUnchecked ==
  /\ processors > 0
  /\ inputs < inputLimit
  /\ inputs' = inputs + 1
  /\ UNCHANGED inputLimit
  /\ audioFrames' = audioFrames + 1
  /\ sockets' = (IF wsRef # 0 THEN [sockets EXCEPT ![wsRef].sent = Append(@, "audio")]
                 ELSE sockets)
  /\ lastError' = "none"
  /\ UNCHANGED <<sessionVars, loading, uiFlags, transcriptVars, diseases, artifactVars,
                 wsRef, audioNodesRef, processors, schedulerVars, analysisVars, micPending,
                 stops, dashboardVars, gateVars>>

\* onaudioprocess sending the frame unless the socket is CONNECTING or CLOSED
OnAudioProcessWhileClosing ==
  /\ processors > 0
  /\ inputs < inputLimit
  /\ inputs' = inputs + 1
  /\ UNCHANGED inputLimit
  /\ audioFrames' = audioFrames + 1
  /\ sockets' = (IF wsRef # 0 /\ sockets[wsRef].readyState \in {"OPEN", "CLOSING"}
                 THEN [sockets EXCEPT ![wsRef].sent = Append(@, "audio")]
                 ELSE sockets)
  /\ lastError' = "none"
  /\ UNCHANGED <<sessionVars, loading, uiFlags, transcriptVars, diseases, artifactVars,
                 wsRef, audioNodesRef, processors, schedulerVars, analysisVars, micPending,
                 stops, dashboardVars, gateVars>>

\* onaudioprocess of a connected script processor: the frame is sent on
\* wsRef.current if that socket is OPEN, and is dropped otherwise
OnAudioProcess ==
  /\ processors > 0
  /\ inputs < inputLimit
  /\ inputs' = inputs + 1
  /\ UNCHANGED inputLimit
  /\ audioFrames' = audioFrames + 1
  /\ sockets' = (IF wsRef # 0 /\ sockets[wsRef].readyState = "OPEN"
                 THEN [sockets EXCEPT ![wsRef].sent = Append(@, "audio")]
                 ELSE sockets)
  /\ lastError' = "none"
  /\ UNCHANGED <<sessionVars, loading, uiFlags, transcriptVars, diseases, artifactVars,
                 wsRef, audioNodesRef, processors, schedulerVars, analysisVars, micPending,
                 stops, dashboardVars, gateVars>>

\* ----------------------------------------------------------- socket events
SetReadyState(i, st) == sockets' = [sockets EXCEPT ![i].readyState = st]

\* onopen of socket i; the isRecording effect then runs
\* initializeLiveTranscription
OnOpen(i) ==
  /\ sockets[i].readyState = "CONNECTING"
  /\ SetReadyState(i, "OPEN")
  /\ isConnected' = TRUE
  /\ isRecording' = TRUE
  /\ isLiveTranscribing' = (IF isRecording THEN isLiveTranscribing ELSE TRUE)
  /\ UNCHANGED <<sessionVars, loading, transcriptVars, diseases, artifactVars, wsRef,
                 audioVars, schedulerVars, analysisVars, micPending, stops,
                 inputs, inputLimit>>
  /\ lastError' = "none"
  /\ UNCHANGED <<dashboardVars, gateVars>>

\* onclose also ending the recording
OnServerCloseEndsRecording(i, code) ==
  /\ sockets[i].readyState \in {"CONNECTING", "OPEN"}
  /\ sockets[i].readyState = "CONNECTING" => code # 1000
  /\ SetReadyState(i, "CLOSED")
  /\ isConnected' = FALSE
  /\ isRecording' = FALSE
  /\ isLiveTranscribing' = FALSE
  /\ lastError' = (IF code # 1000 THEN "close" ELSE "none")
  /\ UNCHANGED <<sessionVars, loading, transcriptVars, diseases, artifactVars, wsRef,
                 audioVars, schedulerVars, analysisVars, micPending, stops, inputs, inputLimit>>
  /\ UNCHANGED <<dashboardVars, gateVars>>

\* the connection of socket i ends without the client having closed it:
\* onerror and onclose with a code other than 1000, or onclose(1000) when the
\* server closes normally
OnServerClose(i, code) ==
  /\ sockets[i].readyState \in {"CONNECTING", "OPEN"}
  /\ sockets[i].readyState = "CONNECTING" => code # 1000
  /\ SetReadyState(i, "CLOSED")
  /\ isConnected' = FALSE
  /\ lastError' = (IF code # 1000 THEN "close" ELSE "none")
  /\ UNCHANGED <<sessionVars, loading, isRecording, isLiveTranscribing, transcriptVars,
                 diseases, artifactVars, wsRef, audioVars, schedulerVars, analysisVars,
                 micPending, stops, inputs, inputLimit>>
  /\ UNCHANGED <<dashboardVars, gateVars>>

\* the closing handshake started by close(1000) completes: onclose
OnClientClose(i) ==
  /\ sockets[i].readyState = "CLOSING"
  /\ SetReadyState(i, "CLOSED")
  /\ isConnected' = FALSE
  /\ UNCHANGED <<sessionVars, loading, isRecording, isLiveTranscribing, transcriptVars,
                 diseases, artifactVars, wsRef, audioVars, schedulerVars, analysisVars,
                 micPending, stops, inputs, inputLimit>>
  /\ lastError' = "none"
  /\ UNCHANGED <<dashboardVars, gateVars>>

\* -------------------------------------------------------- disease analysis
\* detectDiseases(text) up to its fetch: POST /v1/analyze {session_id, transcript}
DetectDiseases(text) ==
  IF session = 0
  THEN UNCHANGED analysisVars
  ELSE /\ analysisCalls' = Append(analysisCalls, text)
       /\ analysisPending' = analysisPending + 1
       /\ UNCHANGED lastResponse

\* what clearTimeout(diseaseDetectionTimerRef.current) leaves pending: the
\* timeout of the ref, when it is still pending, is the latest one set
ClearTimeout ==
  IF debounceTimer.armed THEN SubSeq(timeouts, 1, Len(timeouts) - 1) ELSE timeouts

\* detectDiseasesDebounced comparing the text with the text of the pending
\* request as well, and then keeping the pending timer
DetectDiseasesDebouncedKeepsPending(text) ==
  /\ debounceTimer' =
       IF Len(text) < 10 THEN NoTimer
       ELSE IF debounceTimer.armed /\ TooSimilar(debounceTimer.text, text)
            THEN debounceTimer
       ELSE IF TooSimilar(lastDetectedText, text) THEN NoTimer
       ELSE Timer(text)
  /\ timeouts' =
       IF Len(text) < 10 THEN ClearTimeout
       ELSE IF debounceTimer.armed /\ TooSimilar(debounceTimer.text, text) THEN timeouts
       ELSE IF TooSimilar(lastDetectedText, text) THEN ClearTimeout
       ELSE Append(ClearTimeout, text)

\* detectDiseasesDebounced without its clearTimeout
DetectDiseasesDebouncedNoClear(text) ==
  /\ debounceTimer' =
       IF Len(text) < 10 THEN debounceTimer
       ELSE IF TooSimilar(lastDetectedText, text) THEN debounceTimer
       ELSE Timer(text)
  /\ timeouts' =
       IF Len(text) < 10 THEN timeouts
       ELSE IF TooSimilar(lastDetectedText, text) THEN timeouts
       ELSE Append(timeouts, text)

\* detectDiseasesDebounced(text): clearTimeout of the ref, the two early
\* returns, then setTimeout with the text; the callback is DebounceFires
DetectDiseasesDebounced(text) ==
  /\ debounceTimer' =
       IF Len(text) < 10 THEN NoTimer
       ELSE IF TooSimilar(lastDetectedText, text) THEN NoTimer
       ELSE Timer(text)
  /\ timeouts' =
       IF Len(text) < 10 THEN ClearTimeout
       ELSE IF TooSimilar(lastDetectedText, text) THEN ClearTimeout
       ELSE Append(ClearTimeout, text)

\* a timeout set by detectDiseasesDebounced expires and its callback runs
DebounceFires ==
  /\ \E k \in DOMAIN timeouts :
       /\ lastDetectedText' = timeouts[k]
       /\ timeouts' = SubSeq(timeouts, 1, k - 1) \o SubSeq(timeouts, k + 1, Len(timeouts))
       /\ debounceTimer' = (IF debounceTimer.armed /\ k = Len(timeouts) THEN NoTimer
                            ELSE debounceTimer)
       /\ DetectDiseases(timeouts[k])
  /\ UNCHANGED <<sessionVars, loading, uiFlags, transcriptVars, diseases, artifactVars,
                 socketVars, audioVars, micPending, stops, inputs, inputLimit>>
  /\ lastError' = "none"
  /\ UNCHANGED <<dashboardVars, gateVars>>

\* an analysis call answers 2xx and its detections replace the list
AnalysisAnsweredOverwrites(detections) ==
  /\ analysisPending > 0
  /\ analysisPending' = analysisPending - 1
  /\ lastResponse' = detections
  /\ diseases' = (IF Len(detections) > 0 THEN detections ELSE diseases)
  /\ UNCHANGED <<sessionVars, loading, uiFlags, transcriptVars, artifactVars, socketVars,
                 audioVars, schedulerVars, analysisCalls, micPending, stops,
                 inputs, inputLimit>>
  /\ lastError' = "none"
  /\ UNCHANGED <<dashboardVars, gateVars>>

\* an analysis call answers 2xx with data.detections = detections
AnalysisAnswered(detections) ==
  /\ analysisPending > 0
  /\ analysisPending' = analysisPending - 1
  /\ lastResponse' = detections
  /\ diseases' = (IF Len(detections) > 0 THEN MergeDetections(diseases, detections)
                  ELSE diseases)
  /\ UNCHANGED <<sessionVars, loading, uiFlags, transcriptVars, artifactVars, socketVars,
                 audioVars, schedulerVars, analysisCalls, micPending, stops,
                 inputs, inputLimit>>
  /\ lastError' = "none"
  /\ UNCHANGED <<dashboardVars, gateVars>>

\* a failed analysis call that also clears the pending debounce timer
AnalysisFailedClearsTimer ==
  /\ analysisPending > 0
  /\ analysisPending' = analysisPending - 1
  /\ lastError' = "analysis"
  /\ debounceTimer' = NoTimer
  /\ timeouts' = ClearTimeout
  /\ UNCHANGED <<sessionVars, loading, uiFlags, transcriptVars, diseases, artifactVars,
                 socketVars, audioVars, lastDetectedText, analysisCalls, lastResponse,
                 micPending, stops, inputs, inputLimit>>
  /\ UNCHANGED <<dashboardVars, gateVars>>

\* an analysis call answers non-2xx or rejects: console.error only
AnalysisFailed ==
  /\ analysisPending > 0
  /\ analysisPending' = analysisPending - 1
  /\ lastError' = "analysis"
  /\ UNCHANGED <<sessionVars, loading, uiFlags, transcriptVars, diseases, artifactVars,
                 socketVars, audioVars, schedulerVars, analysisCalls, lastResponse,
                 micPending, stops, inputs, inputLimit>>
  /\ UNCHANGED <<dashboardVars, gateVars>>

\* ---------------------------------------------------------------- onmessage
\* the is_final branch with the new segment put in front of the history
FinalSegmentPrepends(m) ==
  /\ liveTranscriptHistory' = <<FormatText(m)>> \o liveTranscriptHistory
  /\ liveTranscript' = <<>>
  /\ DetectDiseases(FormatText(m))
  /\ UNCHANGED schedulerVars

\* the is_final branch sending the segment through the debounced path
FinalSegmentDebounced(m) ==
  /\ liveTranscriptHistory' = Append(liveTranscriptHistory, FormatText(m))
  /\ liveTranscript' = <<>>
  /\ DetectDiseasesDebounced(FormatText(m))
  /\ UNCHANGED <<lastDetectedText, analysisVars>>

\* the is_final branch recording its text as the last analysed one
FinalSegmentUpdatesLast(m) ==
  /\ liveTranscriptHistory' = Append(liveTranscriptHistory, FormatText(m))
  /\ liveTranscript' = <<>>
  /\ DetectDiseases(FormatText(m))
  /\ lastDetectedText' = FormatText(m)
  /\ UNCHANGED <<debounceTimer, timeouts>>

\* the is_final branch
FinalSegment(m) ==
  /\ liveTranscriptHistory' = Append(liveTranscriptHistory, FormatText(m))
  /\ liveTranscript' = <<>>
  /\ DetectDiseases(FormatText(m))
  /\ UNCHANGED schedulerVars

\* the interim branch
InterimSegment(m) ==
  /\ liveTranscript' = FormatText(m)
  /\ IF Len(SplitSpace(m.text)) >= 5
     THEN DetectDiseasesDebounced(m.text)
     ELSE UNCHANGED <<debounceTimer, timeouts>>
  /\ UNCHANGED <<liveTranscriptHistory, lastDetectedText, analysisVars>>

\* onmessage whose error branch alerts and then goes on to the text of the
\* message
OnMessageErrorFallsThrough(i, m) ==
  /\ sockets[i].readyState = "OPEN"
  /\ inputs < inputLimit
  /\ inputs' = inputs + 1
  /\ UNCHANGED inputLimit
  /\ lastMessage' = m
  /\ finals' = (IF m.kind = "json" /\ ~m.error /\ Len(m.text) > 0 /\ m.is_final
                THEN Append(finals, m) ELSE finals)
  /\ CASE m.kind = "malformed" ->
            /\ lastError' = "parse"
            /\ UNCHANGED <<liveTranscript, liveTranscriptHistory, schedulerVars,
                           analysisVars>>
       [] m.kind = "binary" ->
            /\ lastError' = "none"
            /\ UNCHANGED <<liveTranscript, liveTranscriptHistory, schedulerVars,
                           analysisVars>>
       [] m.kind = "json" /\ Len(m.text) = 0 ->
            /\ lastError' = (IF m.error THEN "server" ELSE "none")
            /\ UNCHANGED <<liveTranscript, liveTranscriptHistory, schedulerVars,
                           analysisVars>>
       [] OTHER ->
            /\ IF m.is_final THEN FinalSegment(m) ELSE InterimSegment(m)
            /\ lastError' = (IF m.error THEN "server" ELSE "none")
  /\ UNCHANGED <<sessionVars, loading, uiFlags, diseases, artifactVars, socketVars,
                 audioVars, micPending, stops>>
  /\ UNCHANGED <<dashboardVars, gateVars>>

\* onmessage of socket i receives m (a message event is dispatched only
\* while the socket is OPEN)
OnMessage(i, m) ==
  /\ sockets[i].readyState = "OPEN"
  /\ inputs < inputLimit
  /\ inputs' = inputs + 1
  /\ UNCHANGED inputLimit
  /\ lastMessage' = m
  /\ finals' = (IF m.kind = "json" /\ ~m.error /\ Len(m.text) > 0 /\ m.is_final
                THEN Append(finals, m) ELSE finals)
  /\ CASE m.kind = "malformed" ->
            /\ lastError' = "parse"
            /\ UNCHANGED <<liveTranscript, liveTranscriptHistory, schedulerVars,
                           analysisVars>>
       [] m.kind = "binary" ->
            /\ lastError' = "none"
            /\ UNCHANGED <<liveTranscript, liveTranscriptHistory, schedulerVars,
                           analysisVars>>
       [] m.kind = "json" /\ m.error ->
            /\ lastError' = "server"
            /\ UNCHANGED <<liveTranscript, liveTranscriptHistory, schedulerVars,
                           analysisVars>>
       [] m.kind = "json" /\ ~m.error /\ Len(m.text) = 0 ->
            /\ lastError' = "none"
            /\ UNCHANGED <<liveTranscript, liveTranscriptHistory, schedulerVars,
                           analysisVars>>
       [] OTHER ->
            /\ IF m.is_final THEN FinalSegment(m) ELSE InterimSegment(m)
            /\ lastError' = "none"
  /\ UNCHANGED <<sessionVars, loading, uiFlags, diseases, artifactVars, socketVars,
                 audioVars, micPending, stops>>
  /\ UNCHANGED <<dashboardVars, gateVars>>

\* ------------------------------------------------------------ stopRecording
NoRequest == [sent |-> FALSE]

\* body of POST /v1/soap/generate, from the values generateSOAP closes over
SoapRequest(history, ds) ==
  [sent |-> TRUE,
   transcript |-> Join(history, ParagraphBreak),
   detected_diseases |-> DetectedDiseases(ds)]

\* body of POST /v1/recommendations/generate, from the values
\* generateRecommendations closes over
RecommendationRequest(history, ds, note) ==
  [sent |-> TRUE,
   transcript |-> Join(history, ParagraphBreak),
   detected_diseases |-> DetectedDiseases(ds),
   soap_note |-> note]

\* the transcript check left out
HasTranscriptUnchecked(history) == TRUE

\* generateSOAP and generateRecommendations return before their fetch when
\* the joined transcript is empty or blank
HasTranscript(history) == ~IsBlank(Join(history, ParagraphBreak))

\* the socket part of stopRecording with its two calls in the other order:
\* close(1000) first, the sentinel after it
FinalizeSocketCloseFirst ==
  IF wsRef = 0 THEN UNCHANGED sockets
  ELSE LET state == sockets[wsRef].readyState
       IN  sockets' = [sockets EXCEPT
             ![wsRef].closes = IF state \notin {"CLOSING", "CLOSED"}
                               THEN Append(@, [code |-> 1000,
                                               after |-> Len(sockets[wsRef].sent)])
                               ELSE @,
             ![wsRef].sent = IF state = "OPEN" THEN Append(@, "END_OF_STREAM") ELSE @,
             ![wsRef].readyState = IF state \notin {"CLOSING", "CLOSED"} THEN "CLOSING"
                                   ELSE @]

\* the socket part of stopRecording: END_OF_STREAM if OPEN, then close(1000)
\* unless CLOSING or CLOSED. closes keeps, for each call of close, its code
\* and how much had been sent when it was made
FinalizeSocket ==
  IF wsRef = 0 THEN UNCHANGED sockets
  ELSE LET state == sockets[wsRef].readyState
           sent == IF state = "OPEN" THEN Append(sockets[wsRef].sent, "END_OF_STREAM")
                   ELSE sockets[wsRef].sent
       IN  sockets' = [sockets EXCEPT
             ![wsRef].sent = sent,
             ![wsRef].closes = IF state \notin {"CLOSING", "CLOSED"}
                               THEN Append(@, [code |-> 1000, after |-> Len(sent)])
                               ELSE @,
             ![wsRef].readyState = IF state \notin {"CLOSING", "CLOSED"} THEN "CLOSING"
                                   ELSE @]

\* "Stop & Analyze" is shown while isRecording, "Stop" is enabled while
\* isLiveTranscribing
StopRecordingEnabled ==
  \/ (session # 0 /\ isRecording)
  \/ isLiveTranscribing

\* stopRecording up to the fetch of generateSOAP (or to its end when there is
\* no transcript). The record keeps what the closures of this render hold
\* (history, diseases, soapNote), the two request bodies and the state of the
\* two calls: "unsent", "pending", "ok" or "failed"
StopRecording ==
  /\ StopRecordingEnabled
  /\ inputs < inputLimit
  /\ inputs' = inputs + 1
  /\ UNCHANGED inputLimit
  /\ audioNodesRef' = FALSE
  /\ processors' = (IF audioNodesRef THEN processors - 1 ELSE processors)
  /\ UNCHANGED audioFrames
  /\ FinalizeSocket
  /\ isRecording' = FALSE
  /\ isConnected' = FALSE
  /\ isLiveTranscribing' = FALSE
  /\ IF session # 0 /\ HasTranscript(liveTranscriptHistory)
     THEN /\ loading' = TRUE
          /\ stops' = Append(stops,
               [history |-> liveTranscriptHistory, diseases |-> diseases,
                soapNote |-> soapNote,
                soap |-> "pending", rec |-> "unsent",
                soapRequest |-> SoapRequest(liveTranscriptHistory, diseases),
                recRequest |-> NoRequest])
          /\ lastError' = "none"
     ELSE /\ stops' = Append(stops,
               [history |-> liveTranscriptHistory, diseases |-> diseases,
                soapNote |-> soapNote,
                soap |-> "unsent", rec |-> "unsent",
                soapRequest |-> NoRequest, recRequest |-> NoRequest])
          /\ lastError' = (IF session # 0 THEN "no transcript" ELSE "none")
          /\ UNCHANGED loading
  /\ UNCHANGED <<sessionVars, transcriptVars, diseases, artifactVars, wsRef,
                 schedulerVars, analysisVars, micPending>>
  /\ UNCHANGED <<dashboardVars, gateVars>>

\* generateRecommendations of stop k, up to its fetch, after the SOAP call
\* ended with outcome
GenerateRecommendations(k, outcome) ==
  /\ loading' = TRUE
  /\ stops' = [stops EXCEPT
       ![k].soap = outcome,
       ![k].rec = "pending",
       ![k].recRequest =
          RecommendationRequest(stops[k].history, stops[k].diseases, stops[k].soapNote)]

\* the SOAP call of stop k answers 2xx with note: setSoapNote(data), and
\* stopRecording goes on to generateRecommendations
SoapAnswered(k, note) ==
  /\ stops[k].soap = "pending"
  /\ soapNote' = note
  /\ GenerateRecommendations(k, "ok")
  /\ UNCHANGED <<sessionVars, uiFlags, transcriptVars, diseases, recommendations,
                 socketVars, audioVars, schedulerVars, analysisVars, micPending, inputs, inputLimit>>
  /\ lastError' = "none"
  /\ UNCHANGED <<dashboardVars, gateVars>>

\* the SOAP failure escaping generateSOAP, so that stopRecording ends there
SoapFailedAborts(k) ==
  /\ stops[k].soap = "pending"
  /\ lastError' = "soap"
  /\ loading' = FALSE
  /\ stops' = [stops EXCEPT ![k].soap = "failed"]
  /\ UNCHANGED <<sessionVars, uiFlags, transcriptVars, diseases, artifactVars,
                 socketVars, audioVars, schedulerVars, analysisVars, micPending,
                 inputs, inputLimit>>
  /\ UNCHANGED <<dashboardVars, gateVars>>

\* the SOAP call of stop k answers non-2xx or rejects: alert, and
\* stopRecording goes on to generateRecommendations
SoapFailed(k) ==
  /\ stops[k].soap = "pending"
  /\ lastError' = "soap"
  /\ GenerateRecommendations(k, "failed")
  /\ UNCHANGED <<sessionVars, uiFlags, transcriptVars, diseases, artifactVars,
                 socketVars, audioVars, schedulerVars, analysisVars, micPending,
                 inputs, inputLimit>>
  /\ UNCHANGED <<dashboardVars, gateVars>>

\* the recommendation call of stop k answers 2xx
RecommendationsAnswered(k, recs) ==
  /\ stops[k].rec = "pending"
  /\ recommendations' = recs
  /\ loading' = FALSE
  /\ stops' = [stops EXCEPT ![k].rec = "ok"]
  /\ UNCHANGED <<sessionVars, uiFlags, transcriptVars, diseases, soapNote, socketVars,
                 audioVars, schedulerVars, analysisVars, micPending,
                 inputs, inputLimit>>
  /\ lastError' = "none"
  /\ UNCHANGED <<dashboardVars, gateVars>>

\* the recommendation call of stop k answers non-2xx or rejects:
\* console.error only
RecommendationsFailed(k) ==
  /\ stops[k].rec = "pending"
  /\ lastError' = "recommendations"
  /\ loading' = FALSE
  /\ stops' = [stops EXCEPT ![k].rec = "failed"]
  /\ UNCHANGED <<sessionVars, uiFlags, transcriptVars, diseases, artifactVars,
                 socketVars, audioVars, schedulerVars, analysisVars, micPending,
                 inputs, inputLimit>>
  /\ UNCHANGED <<dashboardVars, gateVars>>

\* ------------------------------------------------- Dashboard and DataProvider
\* the conversion of the diseases prop in the sync effect of the Dashboard
ConvertedDiseases(ds) ==
  [i \in 1..Len(ds) |->
     [name |-> IF ds[i].disease_name # NoName THEN ds[i].disease_name ELSE ds[i].disease,
      confidence |-> ds[i].confidence]]

\* the six sync effects of the Dashboard, run in order after a render: each
\* calls a setter of the DataProvider when its prop is non-empty, and the
\* functional updaters are applied in that order. t is the transcription of
\* the context value the render read
SyncTranscription(t) ==
  LET lastLine == liveTranscriptHistory[Len(liveTranscriptHistory)]
  IN  [sessionId |-> IF session # 0 /\ selectedPatient THEN session ELSE t.sessionId,
       diseases |-> IF Len(diseases) > 0 THEN ConvertedDiseases(diseases) ELSE t.diseases,
       soapNote |-> IF soapNote # NoNote THEN soapNote ELSE t.soapNote,
       recommendations |-> IF Len(recommendations) > 0 THEN recommendations
                           ELSE t.recommendations,
       transcript |-> IF Len(liveTranscript) > 0 THEN liveTranscript ELSE t.transcript,
       transcriptHistory |->
         IF /\ Len(liveTranscriptHistory) > 0
            /\ Len(lastLine) > 0
            /\ lastLine \notin Range(t.transcriptHistory)
         THEN Append(t.transcriptHistory, lastLine)
         ELSE t.transcriptHistory]

\* some effect of that run calls a setter of the DataProvider
SettersInvoked(t) ==
  \/ session # 0 /\ selectedPatient
  \/ Len(diseases) > 0
  \/ soapNote # NoNote
  \/ Len(recommendations) > 0
  \/ Len(liveTranscript) > 0
  \/ /\ Len(liveTranscriptHistory) > 0
     /\ Len(liveTranscriptHistory[Len(liveTranscriptHistory)]) > 0
     /\ liveTranscriptHistory[Len(liveTranscriptHistory)] \notin Range(t.transcriptHistory)

\* the DataProvider renders again after a state update and builds a new
\* `value` object
NewContextValue == 1 - contextValue

\* the effects of the Dashboard run after a render (every render gives the
\* context value a new identity, so every effect runs again). Every setter
\* stores a new transcription object, so the DataProvider renders again when
\* one was called
SyncEffects ==
  /\ transcription' = SyncTranscription(transcription)
  /\ contextValue' = (IF SettersInvoked(transcription) THEN NewContextValue
                      ELSE contextValue)
  /\ lastError' = "none"
  /\ UNCHANGED <<sessionVars, loading, uiFlags, transcriptVars, diseases, artifactVars,
                 socketVars, audioVars, schedulerVars, analysisVars, micPending, stops,
                 inputs, inputLimit, selectedPatient, reviewSubmitted>>
  /\ UNCHANGED gateVars

\* the transcribe button of a patient row: setSelectedPatient(patient)
SelectPatient ==
  /\ ~selectedPatient
  /\ selectedPatient' = TRUE
  /\ lastError' = "none"
  /\ UNCHANGED <<sessionVars, loading, uiFlags, transcriptVars, diseases, artifactVars,
                 socketVars, audioVars, schedulerVars, analysisVars, micPending, stops,
                 inputs, inputLimit, transcription, reviewSubmitted, contextValue>>
  /\ UNCHANGED gateVars

\* submitReview whose save succeeds (recordId is never set, so it returns at
\* once unless the context holds a sessionId; a failed save changes nothing)
SubmitReview ==
  /\ ~reviewSubmitted
  /\ transcription.sessionId # 0
  /\ reviewSubmitted' = TRUE
  /\ contextValue' = NewContextValue
  /\ lastError' = "none"
  /\ UNCHANGED <<sessionVars, loading, uiFlags, transcriptVars, diseases, artifactVars,
                 socketVars, audioVars, schedulerVars, analysisVars, micPending, stops,
                 inputs, inputLimit, transcription, selectedPatient>>
  /\ UNCHANGED gateVars

\* "Start New Review" (shown once the review is submitted): resetReview and
\* resetSession of the DataProvider
ResetSession ==
  /\ reviewSubmitted
  /\ reviewSubmitted' = FALSE
  /\ transcription' = initialTranscription
  /\ contextValue' = NewContextValue
  /\ lastError' = "none"
  /\ UNCHANGED <<sessionVars, loading, uiFlags, transcriptVars, diseases, artifactVars,
                 socketVars, audioVars, schedulerVars, analysisVars, micPending, stops,
                 inputs, inputLimit, selectedPatient>>
  /\ UNCHANGED gateVars

\* ------------------------------------------------------------ specification
\* every step of the program and of its environment, the transcription
\* service delivering messages drawn from msgs
Step(msgs) ==
  \/ StartSession
  \/ SessionCreated
  \/ SessionFailed
  \/ StartRecording
  \/ MicrophoneDenied
  \/ StartCapture
  \/ AudioSetupFails
  \/ \E i \in DOMAIN sockets : OnOpen(i)
  \/ \E i \in DOMAIN sockets : \E m \in msgs : OnMessage(i, m)
  \/ \E i \in DOMAIN sockets : \E code \in {1000, 1006} : OnServerClose(i, code)
  \/ \E i \in DOMAIN sockets : OnClientClose(i)
  \/ DebounceFires
  \/ \E detections \in AnalysisResponses : AnalysisAnswered(detections)
  \/ AnalysisFailed
  \/ StopRecording
  \/ \E k \in DOMAIN stops : \E note \in SoapNotes : SoapAnswered(k, note)
  \/ \E k \in DOMAIN stops : SoapFailed(k)
  \/ \E k \in DOMAIN stops : \E recs \in RecommendationLists :
        RecommendationsAnswered(k, recs)
  \/ \E k \in DOMAIN stops : RecommendationsFailed(k)

Next == Step(InboundMsgs)

Spec == Init /\ [][Next]_vars

\* the same program, the service delivering the interim texts that exercise
\* the debounce and the similarity gate
NextScheduler == Step(SchedulerMsgs)

SpecScheduler == Init /\ [][NextScheduler]_vars

\* the messages the service delivers in the specification of the Dashboard
DashboardMsgs == {FinalPlain, InterimLong}

\* the same program together with the Dashboard that renders it and the
\* DataProvider the Dashboard mirrors it into
NextDashboard ==
  \/ Step(DashboardMsgs)
  \/ SyncEffects
  \/ SelectPatient
  \/ SubmitReview
  \/ ResetSession

SpecDashboard == Init /\ [][NextDashboard]_vars

\* the texts the similarity gate is examined on
GateTexts == {EmptyText, <<SP>>, T4, T5, T9, T10, TUpper, TLead, TMixed}

InitGate ==
  /\ InitApp
  /\ inputLimit = MaxInputs
  /\ gateLeft \in GateTexts
  /\ gateRight \in GateTexts
  /\ gateValue = NotComputed

\* calculateSimilarity(gateLeft, gateRight) is called and returns
ApplyGate ==
  /\ gateValue = NotComputed
  /\ gateValue' = CalculateSimilarity(gateLeft, gateRight)
  /\ UNCHANGED <<sessionVars, loading, uiFlags, transcriptVars, diseases, artifactVars,
                 socketVars, audioVars, schedulerVars, analysisVars, micPending, stops,
                 lastError, inputs, inputLimit, dashboardVars, gateLeft, gateRight>>

NextGate == ApplyGate

\* the similarity gate alone, on every pair of GateTexts
SpecGate == InitGate /\ [][NextGate]_vars

\* the messages the service delivers in the specification of the audio path
AudioMsgs == {FinalPlain, InterimLong}

\* the same program together with the frames of its script processors
NextAudio ==
  \/ Step(AudioMsgs)
  \/ OnAudioProcess

SpecAudio == Init /\ [][NextAudio]_vars

\* the messages the service delivers in the specification of the threshold
\* of the similarity gate
ThresholdMsgs == {Interim17, Interim20, InterimBrief, InterimLong, FinalPlain}

\* the same program, the service delivering texts at, above and below the
\* threshold
NextThreshold == Step(ThresholdMsgs)

SpecThreshold == Init /\ [][NextThreshold]_vars

\* the messages the service delivers in the specification of the interim
\* branch
InterimMsgs == {InterimShort, InterimLead4, InterimTabs, InterimWords, FinalPlain}

\* the same program, the service delivering interim texts around the
\* 5-token threshold
NextInterim == Step(InterimMsgs)

SpecInterim == Init /\ [][NextInterim]_vars

\* the messages the service delivers in the specification of the aggregator
AggregatorMsgs == {FinalPlain, InterimLong}

\* further data.detections arrays of the analysis service: an empty one, a
\* single detection, a name that comes again with another confidence next to
\* an entry without a name, and two entries without a name
AggregatorResponses ==
  {<<>>, <<Pneumonia9>>, <<Pneumonia6, Unnamed>>, <<Unnamed, Unnamed>>}

\* the same program, the analysis service answering with these arrays as
\* well
NextAggregator ==
  \/ Step(AggregatorMsgs)
  \/ \E detections \in AggregatorResponses : AnalysisAnswered(detections)

SpecAggregator == Init /\ [][NextAggregator]_vars

\* ================================================================= claims

\* C1. TranscriptHistory is the formatted texts of the final text messages
\* delivered so far, one entry per message, in delivery order, whatever
\* interim, error or malformed messages arrived in between.
HistoryOrdering ==
  liveTranscriptHistory = [n \in 1..Len(finals) |-> FormatText(finals[n])]

\* two different final messages have been delivered
HistoryOrderingWitness ==
  /\ Len(finals) = 2
  /\ finals[1] # finals[2]
  /\ Len(liveTranscriptHistory) = 2

\* C2 (as claimed). The DetectionSet never holds two entries with the same
\* disease_name.
OneEntryPerDiseaseName ==
  \A a, b \in DOMAIN diseases :
    diseases[a].disease_name = diseases[b].disease_name => a = b

\* C3 (as claimed). At most one WebSocket of the session is CONNECTING or OPEN.
AtMostOneLiveConnection ==
  Cardinality({i \in DOMAIN sockets : sockets[i].readyState \in {"CONNECTING", "OPEN"}})
    <= 1

\* C4. The delivery of a final text message issues exactly one analysis call,
\* on the formatted text of that message, and leaves the debounce timer and
\* lastDetectedText as they were.
FinalityBypass ==
  [][Len(finals') = Len(finals) + 1 =>
       /\ analysisCalls' = Append(analysisCalls, FormatText(finals'[Len(finals')]))
       /\ analysisPending' = analysisPending + 1
       /\ UNCHANGED schedulerVars]_vars

\* a final segment equal to lastDetectedText (similarity 1) was analysed
\* again, after the debounced analysis of the same text
FinalityBypassWitness ==
  /\ lastDetectedText = T10
  /\ finals = <<FinalPlain>>
  /\ analysisCalls = <<T10, T10>>

\* C5 (as claimed). When a debounced request for T9 (9 of the 10 words of
\* T10) arrives while the timer of the request for T10 is pending, the
\* similarity gate drops it: no timer is armed for T9.
SecondRequestSuppressed ==
  [][(debounceTimer = Timer(T10) /\ inputs' = inputs + 1 /\ liveTranscript' = T9)
       => debounceTimer' # Timer(T9)]_vars

\* C5 (amended). The same request replaces the pending timer: the timer of
\* T10 is cancelled unfired, a timer is armed for T9, no analysis call is made
\* by that step and lastDetectedText keeps its value; and a firing timer
\* issues exactly one call, carrying the text of the request that armed it.
SecondRequestReplacesFirst ==
  [][/\ (debounceTimer = Timer(T10) /\ inputs' = inputs + 1 /\ liveTranscript' = T9
          /\ ~TooSimilar(lastDetectedText, T9))
        => /\ debounceTimer' = Timer(T9)
           /\ UNCHANGED <<analysisVars, lastDetectedText>>
     /\ (debounceTimer.armed /\ lastDetectedText' # lastDetectedText)
        => /\ analysisCalls' = Append(analysisCalls, debounceTimer.text)
           /\ ~debounceTimer'.armed]_vars

\* T10 then T9 were requested within the window and the one timer fired:
\* the single analysis call carries T9
SecondRequestReplacesFirstWitness ==
  /\ inputs = 3
  /\ liveTranscript = T9
  /\ analysisCalls = <<T9>>
  /\ lastDetectedText = T9
  /\ ~debounceTimer.armed

\* C6 (as claimed). stopRecording leaves no debounce timer pending.
StopCancelsDebounceTimer ==
  [][Len(stops') = Len(stops) + 1 => ~debounceTimer'.armed]_vars

\* C7. A stopRecording invoked with an empty TranscriptHistory clears the
\* recording, connected and live flags, and sends neither the SOAP nor the
\* recommendation request, then or later.
EmptyStopSkipsPipeline ==
  /\ [](\A k \in DOMAIN stops :
          stops[k].history = <<>> =>
            /\ ~stops[k].soapRequest.sent
            /\ ~stops[k].recRequest.sent
            /\ stops[k].soap = "unsent"
            /\ stops[k].rec = "unsent")
  /\ [][(Len(stops') = Len(stops) + 1 /\ liveTranscriptHistory = <<>>)
          => /\ ~isRecording' /\ ~isConnected' /\ ~isLiveTranscribing'
             /\ stops'[Len(stops')].history = <<>>
             /\ UNCHANGED <<loading, artifactVars>>]_vars

\* recording was stopped on an open connection before any final segment
EmptyStopSkipsPipelineWitness ==
  /\ Len(stops) = 1
  /\ stops[1].history = <<>>
  /\ \E i \in DOMAIN sockets : Len(sockets[i].sent) > 0
  /\ ~isRecording /\ ~isConnected /\ ~isLiveTranscribing

\* C8 (as claimed). Each request of the terminal pipeline carries the joined
\* TranscriptHistory and the DetectionSet as they are when it is made, and
\* the recommendation request is made only once the SOAP call has ended.
RequestsCarryCurrentState ==
  [][/\ Len(stops') = Len(stops) + 1 /\ stops'[Len(stops')].soapRequest.sent
          => stops'[Len(stops')].soapRequest = SoapRequest(liveTranscriptHistory, diseases)
     /\ \A k \in DOMAIN stops :
          (~stops[k].recRequest.sent /\ stops'[k].recRequest.sent)
            => /\ stops[k].soap = "pending"
               /\ stops'[k].soap \in {"ok", "failed"}
               /\ stops'[k].recRequest.transcript =
                    Join(liveTranscriptHistory, ParagraphBreak)
               /\ stops'[k].recRequest.detected_diseases = DetectedDiseases(diseases)]_vars

OrchestratorState ==
  IF session = 0 THEN "Idle"
  ELSE IF isRecording \/ isLiveTranscribing THEN "Recording"
  ELSE IF Len(stops) > 0 THEN "Stopped"
  ELSE "SessionCreated"

ResetDiscardsSession ==
  [][(reviewSubmitted /\ ~reviewSubmitted')
       => /\ session' = 0
          /\ liveTranscriptHistory' = <<>>
          /\ diseases' = <<>>
          /\ soapNote' = NoNote
          /\ recommendations' = <<>>
          /\ OrchestratorState' = "Idle"]_vars

\* C12. When the session-creation call ends, the loading flag is cleared;
\* a failure is surfaced and stores no session (the orchestrator stays in
\* Idle), a success stores the session (SessionCreated); and the session
\* changes in no other step.
SessionCreationOutcome ==
  [][/\ (sessionPending /\ ~sessionPending')
          => /\ ~loading'
             /\ \/ /\ lastError' = "session"
                   /\ session' = 0
                   /\ OrchestratorState' = "Idle"
                \/ /\ lastError' = "none"
                   /\ session' # 0
                   /\ OrchestratorState' = "SessionCreated"
     /\ session' # session
          => /\ sessionPending /\ ~sessionPending'
             /\ lastError' = "none"]_vars

\* a session-creation call has just failed
SessionCreationOutcomeWitness ==
  /\ lastError = "session"
  /\ session = 0
  /\ ~loading
  /\ ~sessionPending

\* C13. The merge of the aggregator is idempotent: merging a detection list
\* into the DetectionSet a second time changes nothing, whatever the set and
\* whatever the list (repeated and missing disease_name included).
MergeIdempotent ==
  \A detections \in DetectionLists :
    MergeDetections(MergeDetections(diseases, detections), detections)
      = MergeDetections(diseases, detections)

\* the DetectionSet holds a repeated disease_name and an entry without one
MergeIdempotentWitness ==
  /\ Len(diseases) = 3
  /\ Pneumonia9 \in Range(diseases)
  /\ Pneumonia6 \in Range(diseases)
  /\ Unnamed \in Range(diseases)

\* C14. For all texts x and y of GateTexts: similarity(x, x) = 1 when x is
\* not empty, similarity("", y) = 0, similarity(x, y) = similarity(y, x), the
\* value lies within [0, 1], and for non-empty x and y it is
\* |A n B| / |A u B| of the sets A and B of the lower-cased tokens that
\* split(/\s+/) yields.
SimilarityGateLaws ==
  gateValue # NotComputed =>
    LET s == gateValue
        r == CalculateSimilarity(gateRight, gateLeft)
        self == CalculateSimilarity(gateLeft, gateLeft)
        A == Range(SplitWhitespace(ToLowerCase(gateLeft)))
        B == Range(SplitWhitespace(ToLowerCase(gateRight)))
    IN  /\ s.den > 0 /\ 0 <= s.num /\ s.num <= s.den
        /\ s.num * r.den = r.num * s.den
        /\ Len(gateLeft) > 0 => (self.num = self.den /\ self.den > 0)
        /\ gateLeft = gateRight /\ Len(gateLeft) > 0 => s.num = s.den
        /\ Len(gateLeft) = 0 \/ Len(gateRight) = 0 => s.num = 0
        /\ Len(gateLeft) > 0 /\ Len(gateRight) > 0
             => s.num * Cardinality(A \cup B) = s.den * Cardinality(A \cap B)

\* the similarity of TUpper and T10, whose lower-cased tokens are the same,
\* was computed as 1
SimilarityGateLawsWitness ==
  /\ gateLeft = TUpper
  /\ gateRight = T10
  /\ gateValue # NotComputed
  /\ gateValue.num = gateValue.den

\* the audio frames among what was sent on a socket
RECURSIVE AudioSent(_)
AudioSent(sent) ==
  IF sent = <<>> THEN 0
  ELSE (IF Head(sent) = "audio" THEN 1 ELSE 0) + AudioSent(Tail(sent))

\* C15. A frame is sent, at the moment it is produced, on the socket of
\* wsRef if that socket is OPEN and is dropped otherwise; no other step adds
\* an audio frame to what a socket has sent, so a dropped frame is never
\* sent later.
FramesDroppedUnlessOpen ==
  [][/\ audioFrames' = audioFrames + 1
          => IF wsRef # 0 /\ sockets[wsRef].readyState = "OPEN"
             THEN sockets' = [sockets EXCEPT ![wsRef].sent = Append(@, "audio")]
             ELSE sockets' = sockets
     /\ audioFrames' = audioFrames
          => \A i \in DOMAIN sockets' :
               AudioSent(sockets'[i].sent) =
                 (IF i \in DOMAIN sockets THEN AudioSent(sockets[i].sent) ELSE 0)]_vars

\* of two frames, one was produced while the socket was not OPEN and is
\* lost, the other was sent
FramesDroppedUnlessOpenWitness ==
  /\ audioFrames = 2
  /\ Len(sockets) = 1
  /\ sockets[1].sent = <<"audio">>
  /\ sockets[1].readyState = "OPEN"

\* the sentinels among what was sent on a socket
RECURSIVE SentinelsSent(_)
SentinelsSent(sent) ==
  IF sent = <<>> THEN 0
  ELSE (IF Head(sent) = "END_OF_STREAM" THEN 1 ELSE 0) + SentinelsSent(Tail(sent))

\* C16. stopRecording on an OPEN socket sends END_OF_STREAM once and then
\* calls close(1000), the sentinel being the last thing sent before the
\* call; on a CONNECTING socket it sends nothing and calls close(1000); a
\* CLOSING or CLOSED socket is left as it is. No socket ever carries two
\* sentinels or is closed twice by the client.
SentinelThenClose ==
  [][/\ Len(stops') = Len(stops) + 1
          => IF wsRef = 0 THEN sockets' = sockets
             ELSE LET before == sockets[wsRef]
                      after == sockets'[wsRef]
                  IN  /\ sockets' = [sockets EXCEPT ![wsRef] = after]
                      /\ before.readyState = "OPEN"
                           => /\ after.sent = Append(before.sent, "END_OF_STREAM")
                              /\ after.closes =
                                   <<[code |-> 1000, after |-> Len(after.sent)]>>
                              /\ after.readyState = "CLOSING"
                      /\ before.readyState = "CONNECTING"
                           => /\ after.sent = before.sent
                              /\ after.closes =
                                   <<[code |-> 1000, after |-> Len(before.sent)]>>
                              /\ after.readyState = "CLOSING"
                      /\ before.readyState \in {"CLOSING", "CLOSED"}
                           => after = before
     /\ \A i \in DOMAIN sockets' :
          /\ SentinelsSent(sockets'[i].sent) <= 1
          /\ Len(sockets'[i].closes) <= 1]_vars

\* a frame went out, then stopRecording sent the sentinel and closed
SentinelThenCloseWitness ==
  /\ Len(stops) = 1
  /\ Len(sockets) = 1
  /\ sockets[1].sent = <<"audio", "END_OF_STREAM">>
  /\ sockets[1].closes = <<[code |-> 1000, after |-> 2]>>
  /\ sockets[1].readyState = "CLOSING"

\* C17. No step removes, replaces or reorders an entry of the DetectionSet.
\* A call leaves the in-flight calls only by its own response, one response
\* at a time, and stopRecording cancels none. A 2xx response, whenever it
\* arrives, appends in order every detection it returned whose disease_name
\* no entry of the DetectionSet has at that moment.
ResponsesMergedOnArrival ==
  [][/\ Len(diseases') >= Len(diseases)
     /\ SubSeq(diseases', 1, Len(diseases)) = diseases
     /\ Len(stops') = Len(stops) + 1 => analysisPending' = analysisPending
     /\ analysisPending' < analysisPending
          => /\ analysisPending' = analysisPending - 1
             /\ Len(stops') = Len(stops)
             /\ lastError' # "analysis"
                  => diseases' = diseases \o
                       SelectSeq(lastResponse',
                                 LAMBDA d : \A i \in DOMAIN diseases :
                                              diseases[i].disease_name # d.disease_name)
     /\ analysisPending' >= analysisPending => diseases' = diseases]_vars

\* two calls were in flight when stopRecording ran with an empty
\* DetectionSet; both responses arrived after it and both were merged, the
\* second one against the entries of the first
ResponsesMergedOnArrivalWitness ==
  /\ Len(stops) = 1
  /\ stops[1].diseases = <<>>
  /\ Len(analysisCalls) = 2
  /\ analysisPending = 0
  /\ lastResponse = <<Pneumonia6, Unnamed>>
  /\ diseases = <<Pneumonia9, Unnamed>>

\* C18. The failure of an analysis call takes that call out of the calls in
\* flight and changes nothing else: the DetectionSet, the TranscriptHistory,
\* the interim text, lastDetectedText and the debounce timer keep their
\* values and no call is issued in its place. Before and after a failure,
\* every final text message and every expiry of the debounce timer issues
\* its analysis call.
FailedAnalysisDropped ==
  [][/\ lastError' = "analysis"
          => /\ analysisPending' = analysisPending - 1
             /\ UNCHANGED <<diseases, liveTranscriptHistory, liveTranscript, finals,
                            lastDetectedText, debounceTimer, analysisCalls,
                            lastResponse>>
     /\ Len(finals') = Len(finals) + 1
          => /\ analysisCalls' = Append(analysisCalls, FormatText(finals'[Len(finals')]))
             /\ analysisPending' = analysisPending + 1
     /\ (debounceTimer.armed /\ lastDetectedText' # lastDetectedText)
          => /\ analysisCalls' = Append(analysisCalls, debounceTimer.text)
             /\ analysisPending' = analysisPending + 1]_vars

\* the one call in flight has just failed while a debounce timer was
\* pending: the timer is still armed and nothing was merged or re-sent
FailedAnalysisDroppedWitness ==
  /\ lastError = "analysis"
  /\ debounceTimer = Timer(T10)
  /\ analysisCalls = <<T10>>
  /\ analysisPending = 0
  /\ diseases = <<>>
  /\ Len(liveTranscriptHistory) = 1

\* C19. The delivery of a message with an error is reported by an alert and
\* does nothing else: the recording, connected and live flags, every socket,
\* the TranscriptHistory, the interim text, the DetectionSet, the debounce
\* timer and the analysis calls are as they were, whether or not the message
\* carries text.
ErrorMessageOnlyReported ==
  [][lastError' = "server"
       => /\ inputs' = inputs + 1
          /\ UNCHANGED <<sessionVars, loading, uiFlags, socketVars, liveTranscript,
                         liveTranscriptHistory, finals, diseases, artifactVars,
                         schedulerVars, analysisVars, audioVars, stops>>]_vars

\* after a final segment, a message with an error and a final text has just
\* been delivered on the open socket of a running recording
ErrorMessageOnlyReportedWitness ==
  /\ lastError = "server"
  /\ isRecording
  /\ isConnected
  /\ isLiveTranscribing
  /\ sockets[wsRef].readyState = "OPEN"
  /\ Len(liveTranscriptHistory) = 1
  /\ analysisCalls = <<T10>>
  /\ inputs = 3

\* C20 (as claimed). A socket is created only by a startRecording the user
\* invoked. When a connection closes with a code other than 1000, or a
\* malformed message arrives, the session, the recording flag, the
\* TranscriptHistory and the DetectionSet are as they were, and startRecording
\* can be invoked from the resulting state.
StreamingErrorAllowsRetry ==
  [][/\ Len(sockets') > Len(sockets) => micPending' = micPending - 1
     /\ lastError' \in {"close", "parse"}
          => /\ Len(sockets') = Len(sockets)
             /\ UNCHANGED <<sessionVars, isRecording, isLiveTranscribing,
                            liveTranscriptHistory, diseases>>
             /\ StartRecordingEnabled']_vars

\* C21 (as claimed). When capture setup fails inside startRecording
\* (getUserMedia rejects, or the audio pipeline cannot be created), the
\* failure is alerted, the attempt leaves no socket CONNECTING or OPEN, and
\* the recording, connected and live flags are what they were.
CaptureFailureUndoesAttempt ==
  [][lastError' = "capture"
       => /\ UNCHANGED <<isRecording, isConnected, isLiveTranscribing>>
          /\ \A i \in DOMAIN sockets' \ DOMAIN sockets :
               sockets'[i].readyState \notin {"CONNECTING", "OPEN"}]_vars

\* the step is the delivery of a message to onmessage: of the four inputs,
\* not a startRecording, a stopRecording or an audio frame
MessageDelivered ==
  /\ inputs' = inputs + 1
  /\ micPending' = micPending
  /\ Len(stops') = Len(stops)
  /\ audioFrames' = audioFrames

\* C22. At most one timeout of the debounce is pending at any time. A
\* message that changes what is pending leaves either nothing or exactly the
\* timeout of its own raw text: what was pending before is cancelled. A
\* pending timeout can always expire; when it does it is gone, and the step
\* issues one analysis call carrying the text it was armed with and makes
\* that text lastDetectedText.
SingleSlotTimer ==
  [][/\ Len(timeouts') <= 1
     /\ (MessageDelivered /\ timeouts' # timeouts)
          => timeouts' \in {<<>>, <<lastMessage'.text>>}
     /\ Len(timeouts) = 1 => ENABLED DebounceFires
     /\ (Len(timeouts') < Len(timeouts) /\ ~MessageDelivered)
          => /\ timeouts' = <<>>
             /\ analysisCalls' = Append(analysisCalls, timeouts[1])
             /\ analysisPending' = analysisPending + 1
             /\ lastDetectedText' = timeouts[1]]_vars

\* with lastDetectedText empty, the 9-word interim text came as the second
\* message and its timeout expired: the one analysis call carries the 9
\* words
SingleSlotTimerWitness ==
  /\ inputs = 3
  /\ lastMessage = InterimNine
  /\ liveTranscript = T9
  /\ timeouts = <<>>
  /\ analysisCalls = <<T9>>
  /\ analysisPending = 1
  /\ lastDetectedText = T9
  /\ finals = <<>>

\* the step delivers an interim message whose raw text has 5 or more tokens:
\* onmessage calls detectDiseasesDebounced(data.text)
DebouncedRequestMade ==
  /\ MessageDelivered
  /\ lastMessage'.kind = "json"
  /\ ~lastMessage'.error
  /\ Len(lastMessage'.text) > 0
  /\ ~lastMessage'.is_final
  /\ Len(SplitSpace(lastMessage'.text)) >= 5

\* C23 (as claimed). A debounced request arms the timeout of its text if
\* and only if similarity(lastDetectedText, text) <= 0.85; otherwise nothing
\* is pending afterwards.
GateArmsIffDissimilar ==
  [][DebouncedRequestMade
       => LET text == lastMessage'.text
              s == CalculateSimilarity(lastDetectedText, text)
          IN  timeouts' = (IF 100 * s.num <= 85 * s.den THEN <<text>> ELSE <<>>)]_vars

\* C23 (amended). A debounced request arms the timeout of its text if and
\* only if the text has at least 10 characters and
\* similarity(lastDetectedText, text) <= 0.85; otherwise nothing is pending
\* afterwards. In both cases lastDetectedText and the analysis calls are as
\* they were.
GateArmsIffLongAndDissimilar ==
  [][DebouncedRequestMade
       => LET text == lastMessage'.text
              s == CalculateSimilarity(lastDetectedText, text)
          IN  /\ timeouts' = (IF Len(text) >= 10 /\ 100 * s.num <= 85 * s.den
                              THEN <<text>> ELSE <<>>)
              /\ debounceTimer'.armed = (timeouts' # <<>>)
              /\ UNCHANGED <<lastDetectedText, analysisVars>>]_vars

\* the 17 words were analysed; the request for the 20 words, of similarity
\* exactly 0.85 with them, armed its timeout
GateArmsIffLongAndDissimilarWitness ==
  /\ lastDetectedText = T17
  /\ lastMessage = Interim20
  /\ timeouts = <<T20>>
  /\ analysisCalls = <<T17>>

\* the step delivers an interim message with text
InterimDelivered ==
  /\ MessageDelivered
  /\ lastMessage'.kind = "json"
  /\ ~lastMessage'.error
  /\ Len(lastMessage'.text) > 0
  /\ ~lastMessage'.is_final

\* what a call of detectDiseasesDebounced(text) leaves pending
PendingAfterRequest(text) ==
  LET s == CalculateSimilarity(lastDetectedText, text)
  IN  IF Len(text) >= 10 /\ 100 * s.num <= 85 * s.den THEN <<text>> ELSE <<>>

\* the words of a text: its maximal runs of characters that are not
\* whitespace
Words(text) == SelectSeq(SplitWhitespace(text), LAMBDA t : t # <<>>)

\* C24 (as claimed). An interim message with text sets the interim slot to
\* its formatted text and leaves the TranscriptHistory alone; it makes a
\* debounced request for its raw text if it has 5 whitespace-delimited
\* tokens or more, and otherwise leaves the scheduler as it was.
InterimRequestsFromFiveWords ==
  [][InterimDelivered
       => /\ liveTranscript' = FormatText(lastMessage')
          /\ UNCHANGED <<liveTranscriptHistory, finals, analysisVars, lastDetectedText>>
          /\ IF Len(Words(lastMessage'.text)) >= 5
             THEN timeouts' = PendingAfterRequest(lastMessage'.text)
             ELSE UNCHANGED <<timeouts, debounceTimer>>]_vars

\* C25. lastDetectedText changes only in the step in which the pending
\* timeout expires, and becomes the text that timeout was armed with. The
\* delivery of any message (a final segment, a debounced request that is
\* dropped or that replaces the pending one), an analysis response and
\* stopRecording leave it as it was, and a final segment leaves the pending
\* timeout as it was too.
LastDetectedTextFrame ==
  [][/\ lastDetectedText' # lastDetectedText
          => /\ Len(timeouts) = 1
             /\ timeouts' = <<>>
             /\ lastDetectedText' = timeouts[1]
             /\ analysisCalls' = Append(analysisCalls, timeouts[1])
             /\ ~MessageDelivered
     /\ MessageDelivered => lastDetectedText' = lastDetectedText
     /\ Len(stops') = Len(stops) + 1 => lastDetectedText' = lastDetectedText
     /\ analysisPending' < analysisPending => lastDetectedText' = lastDetectedText
     /\ Len(finals') = Len(finals) + 1
          => UNCHANGED <<debounceTimer, timeouts, lastDetectedText>>]_vars

\* T5 was analysed by the debounce; a request for T10 is pending and a final
\* segment has been analysed since: lastDetectedText is still T5 and the
\* timeout of T10 is still pending
LastDetectedTextFrameWitness ==
  /\ lastDetectedText = T5
  /\ timeouts = <<T10>>
  /\ lastMessage = FinalPlain
  /\ finals = <<FinalPlain>>
  /\ analysisCalls = <<T5, T10>>

\* the messages the service delivers in the specification of the second
\* recording
RestartMsgs == {FinalPlain, InterimLong}

\* one input more than Init allows: a recording with a final segment, its
\* stop, and a second startRecording followed by its own stop
InitRestart ==
  /\ InitApp
  /\ inputLimit = MaxInputs + 1
  /\ gateLeft = EmptyText
  /\ gateRight = EmptyText
  /\ gateValue = NotComputed

NextRestart == Step(RestartMsgs)

SpecRestart == InitRestart /\ [][NextRestart]_vars

\* the step is an invocation of stopRecording
StopInvoked == Len(stops') = Len(stops) + 1

\* the stops of the session that went on to the SOAP collaborator
PipelineRuns == {k \in DOMAIN stops : stops[k].soapRequest.sent}

\* C26 (as claimed). stopRecording takes effect only in Recording: invoked
\* while no connection of the recording has opened (isRecording is false) it
\* sends nothing on a socket and calls neither the SOAP nor the
\* recommendation collaborator, and the session triggers the terminal
\* pipeline at most once.
StopOnlyInRecording ==
  [][/\ (StopInvoked /\ ~isRecording)
          => /\ \A i \in DOMAIN sockets : sockets'[i].sent = sockets[i].sent
             /\ ~stops'[Len(stops')].soapRequest.sent
             /\ stops'[Len(stops')].soap = "unsent"
             /\ stops'[Len(stops')].rec = "unsent"
     /\ Cardinality(PipelineRuns') <= 1]_vars

\* C27. On every connection, nothing sent after the END_OF_STREAM sentinel
\* is an audio frame, whatever the interleaving of onaudioprocess callbacks
\* and stopRecording.
NoAudioAfterSentinel ==
  \A i \in DOMAIN sockets :
    \A p, q \in DOMAIN sockets[i].sent :
      (p < q /\ sockets[i].sent[p] = "END_OF_STREAM") => sockets[i].sent[q] # "audio"

\* stopRecording ended the first connection with the sentinel; the capture of
\* a startRecording clicked earlier then began, and its frame went out on the
\* second connection and not on the first
NoAudioAfterSentinelWitness ==
  /\ Len(sockets) = 2
  /\ sockets[1].sent = <<"END_OF_STREAM">>
  /\ sockets[1].readyState \in {"CLOSING", "CLOSED"}
  /\ sockets[2].sent = <<"audio">>
  /\ audioFrames = 1

\* C28 (as claimed). When the SOAP call made by stopRecording succeeds, the
\* recommendation request that stopRecording issues next carries the SOAP
\* note just returned in its soap_note field, not the value the SoapNote
\* slot had before the stop.
RecommendationCarriesNewNote ==
  [][\A k \in DOMAIN stops :
       (stops[k].soap = "pending" /\ stops'[k].soap = "ok")
         => /\ stops'[k].recRequest.sent
            /\ stops'[k].recRequest.soap_note = soapNote'
            /\ soapNote' \in SoapNotes]_vars

\* stopRecording was invoked and no startRecording has been invoked since or
\* is still under way
StoppedSinceLastStart ==
  /\ Len(stops) > 0
  /\ ~isRecording
  /\ ~isLiveTranscribing
  /\ micPending = 0

\* C29 (as claimed). After stopRecording has been invoked, the
\* TranscriptHistory no longer changes until a later startRecording, whatever
\* messages are still delivered; hence the history the latest stop handed to
\* the SOAP and recommendation requests is the whole TranscriptHistory.
HistoryFrozenAfterStop ==
  [][StoppedSinceLastStart
       => /\ liveTranscriptHistory' = liveTranscriptHistory
          /\ stops[Len(stops)].history = liveTranscriptHistory']_vars

\* the Dashboard together with its scheduling: React runs the effects of a
\* committed render, so SyncEffects is not postponed for ever
SpecSync == Init /\ [][NextDashboard]_vars /\ WF_vars(SyncEffects)

\* the step is a run of the effects in which a setter of the store was
\* invoked (the review is untouched, so it is neither submitReview nor the
\* reset)
EffectsInvokeSetter ==
  /\ contextValue' # contextValue
  /\ reviewSubmitted' = reviewSubmitted

\* C30 (as claimed). The synchronisation quiesces: unless the review keeps
\* being submitted and reset, the Dashboard effects invoke the setters of the
\* store only finitely many times.
SyncQuiesces ==
  \/ []<><<reviewSubmitted' # reviewSubmitted>>_vars
  \/ <>[][~EffectsInvokeSetter]_vars

====
